---------------------------- MODULE Spec2Model ----------------------------
(***************************************************************************)
(* The vSphere cloud provider of the cluster autoscaler: construction of   *)
(* the provider (BuildVsphere), the single node group it registers, the    *)
(* tag based membership resolution of the manager, and the resize          *)
(* operation IncreaseSize run by concurrent callers under the cluster-wide *)
(* mutex.                                                                  *)
(***************************************************************************)
EXTENDS Integers, Sequences, FiniteSets, TLC

(* ------------------------------ bounds -------------------------------- *)
\* number of goroutines calling into the node group
NumCallers == 2
\* total number of operations invoked on the node group in one behaviour
MaxCalls == 2
\* largest delta passed to IncreaseSize / DecreaseTargetSize
MaxDelta == 2
\* managed object references that exist on the platform before start-up
MaxRef == 2
\* largest size appearing in a node group spec
MaxSpecSize == 2

(* --------------------------- program constants ------------------------ *)
supportScaleToZero == FALSE
ErrNotImplemented == "ErrNotImplemented"
ErrAlreadyExist == "ErrAlreadyExist"
ErrNil == "nil"
ErrDelta == "node group size increase must be positive"
ErrSize == "could not check current nodegroup size"
ErrTooLarge == "size increase too large"
ErrCreate == "could not increase cluster size"

Callers == 1..NumCallers
Refs == 1..MaxRef
\* the two tags nodeGroupSize looks up: "k8s-cluster-"+clusterName and
\* "k8s-nodegroup-"+nodeGroup
ClusterTag == "k8s-cluster"
NodeGroupTag == "k8s-nodegroup"
Tags == {ClusterTag, NodeGroupTag}
\* the label NodeGroupForNode looks for, and a label every node carries
MasterLabel == "node-role.kubernetes.io/master"
HostnameLabel == "kubernetes.io/hostname"
\* node.ObjectMeta.Labels, as the set of its keys
NodeLabels == SUBSET {MasterLabel, HostnameLabel}

VARIABLES
    phase,               \* position of BuildVsphere / the process
    NodeGroupSpecs,      \* do.NodeGroupSpecs, the discovery specs handed in
    nodeGroups,          \* vcp.nodeGroups
    targetSize,          \* the int cell ng.targetSize points to
    clusterUpdateMutex,  \* TRUE when the sync.Mutex is locked
    tagExists,           \* tags known to the platform
    attached,            \* tag -> set of objects the tag is attached to
    pc,                  \* caller -> position inside IncreaseSize
    delta,               \* caller -> argument of its IncreaseSize call
    size,                \* caller -> local variable size of IncreaseSize
    i,                   \* caller -> loop index of createNodes
    err,                 \* caller -> value IncreaseSize is about to return
    hist,                \* caller -> what happened during its current call
    calls,               \* number of operations invoked so far
    last,                \* the lock-free operation that returned last, with
                         \* its result
    created,             \* number of VMs this process has cloned
    requested            \* sequence numbers of the names createNode was
                         \* called with so far

vars == <<phase, NodeGroupSpecs, nodeGroups, targetSize, clusterUpdateMutex,
          tagExists, attached, pc, delta, size, i, err,
          hist, calls, last, created, requested>>

platform == <<tagExists, attached>>
locals == <<pc, delta, size, i, err, hist>>
provider == <<phase, NodeGroupSpecs, nodeGroups>>
clones == <<created, requested>>

(* ----------------------- membership resolution ------------------------ *)
\* a loop that gives its answer after the first comparison
ContainFirstOnly(node, ngs) == ngs # <<>> /\ node = Head(ngs)

RECURSIVE Contain(_, _)
\* Contain: node == ng for some ng of nodeGroups
Contain(node, ngs) ==
    IF ngs = <<>> THEN FALSE
    ELSE IF node = Head(ngs) THEN TRUE
    ELSE Contain(node, Tail(ngs))

RECURSIVE ContainObjects(_, _)
\* ContainObjects: the childObjects that are among parentObjects, in order
ContainObjects(parentObjects, childObjects) ==
    IF childObjects = <<>> THEN <<>>
    ELSE (IF Contain(Head(childObjects), parentObjects)
            THEN <<Head(childObjects)>> ELSE <<>>)
         \o ContainObjects(parentObjects, Tail(childObjects))

ToSet(s) == {s[k] : k \in 1..Len(s)}

\* the orders in which the platform may list the members of a set
Orderings(S) ==
    {s \in [1..Cardinality(S) -> S] : ToSet(s) = S}

\* GetTagID: the id of the named tag, "" when the listing failed (the error
\* of GetTags is dropped) or no tag has the name
GetTagID(tag, failed) ==
    IF failed \/ tag \notin tagExists THEN "" ELSE tag

\* a listing for which the empty tag id stands for any tag
GetObjectsFromTagAnyTag(tag, failed) ==
    IF GetTagID(tag, failed) = ""
      THEN Orderings(UNION {attached[t] : t \in Tags})
      ELSE Orderings(attached[tag])

\* GetObjectsFromTag: the possible results of ListAttachedObjects for the
\* tag id; its error is dropped and the nil slice returned
GetObjectsFromTag(tag, failed) ==
    IF GetTagID(tag, failed) = "" THEN {<<>>}
    ELSE Orderings(attached[tag])

\* nodeGroupSize: len of the contained objects, with a nil error
nodeGroupSize(clusterMachines, nodeGroupMachines) ==
    [size |-> Len(ContainObjects(clusterMachines, nodeGroupMachines)),
     err |-> ErrNil]

\* getNodes: the reference values of the contained objects, with a nil error
getNodes(clusterMachines, nodeGroupMachines) ==
    [nodes |-> ContainObjects(clusterMachines, nodeGroupMachines),
     err |-> ErrNil]

\* the members of the group on the platform itself
Members == attached[ClusterTag] \cap attached[NodeGroupTag]
LiveSize == Cardinality(Members)

(* ------------------------------ inputs -------------------------------- *)
\* a discovery spec "<min>:<max>:<name>" as the numbers it carries
SpecStrings == [minSize : 0..MaxSpecSize, maxSize : 0..MaxSpecSize]

\* dynamic.SpecFromString(spec, supportScaleToZero): whether the spec parses
\* and validates
SpecFromStringOk(spec) ==
    /\ spec.minSize >= (IF supportScaleToZero THEN 0 ELSE 1)
    /\ spec.maxSize >= spec.minSize

\* the --nodes arguments a process may be started with: none, one, or two
SpecInputs ==
    {<<>>} \cup {<<s>> : s \in SpecStrings} \cup {<<s, s>> : s \in SpecStrings}

HistInit ==
    [t0 |-> 0, queried |-> FALSE, live |-> 0, lookupFailed |-> FALSE,
     createNodes |-> <<>>, names |-> <<>>, failures |-> 0]

\* what a lock-free operation hands back: its name, its error, the number or
\* the ids it returns, the node group it returns (0 for nil, k for
\* &vcp.nodeGroups[k-1]), the labels of the node it was asked about, and for
\* the manager's queries the two listings read
LastNone ==
    [op |-> "none", err |-> ErrNil, n |-> 0, nodes |-> <<>>,
     group |-> 0, labels |-> {}, groups |-> <<>>,
     clusterMachines |-> <<>>, nodeGroupMachines |-> <<>>]

Init ==
    /\ phase = "start"
    /\ NodeGroupSpecs \in SpecInputs
    /\ nodeGroups = <<>>
    /\ targetSize = 0
    /\ clusterUpdateMutex = FALSE
    /\ tagExists \in SUBSET Tags
    /\ attached \in [Tags -> SUBSET Refs]
    /\ \A t \in Tags : t \notin tagExists => attached[t] = {}
    /\ pc = [p \in Callers |-> "idle"]
    /\ delta = [p \in Callers |-> 0]
    /\ size = [p \in Callers |-> 0]
    /\ i = [p \in Callers |-> 0]
    /\ err = [p \in Callers |-> ErrNil]
    /\ hist = [p \in Callers |-> HistInit]
    /\ calls = 0
    /\ last = LastNone
    /\ created = 0
    /\ requested = {}

(* ---------------------------- BuildVsphere ---------------------------- *)
\* a construction that goes on with the first of several specs
BuildVsphereSpecsFirstOfMany ==
    /\ phase = "start"
    /\ IF Len(NodeGroupSpecs) = 0
         THEN phase' = "fatal"
         ELSE IF ~SpecFromStringOk(NodeGroupSpecs[1])
                THEN phase' = "fatal"
                ELSE phase' = "constructed"
    /\ targetSize' = 0
    /\ UNCHANGED <<NodeGroupSpecs, nodeGroups, clusterUpdateMutex, platform,
                   locals, calls, last>>
    /\ UNCHANGED clones

\* BuildVsphere up to the construction of ng: fatal unless exactly one spec
\* is given and it parses; ng.targetSize = new(int)
BuildVsphereSpecs ==
    /\ phase = "start"
    /\ IF Len(NodeGroupSpecs) = 0 \/ Len(NodeGroupSpecs) > 1
         THEN phase' = "fatal"
         ELSE IF ~SpecFromStringOk(NodeGroupSpecs[1])
                THEN phase' = "fatal"
                ELSE phase' = "constructed"
    /\ targetSize' = 0
    /\ UNCHANGED <<NodeGroupSpecs, nodeGroups, clusterUpdateMutex, platform,
                   locals, calls, last>>
    /\ UNCHANGED clones

\* *ng.targetSize, err = ng.vsphereManager.nodeGroupSize(ng.id)
BuildVsphereSeed ==
    /\ phase = "constructed"
    /\ \E f1, f2 \in BOOLEAN :
         \E cm \in GetObjectsFromTag(ClusterTag, f1),
            gm \in GetObjectsFromTag(NodeGroupTag, f2) :
           LET r == nodeGroupSize(cm, gm) IN
             /\ targetSize' = r.size
             /\ phase' = IF r.err # ErrNil THEN "fatal" ELSE "seeded"
    /\ UNCHANGED <<NodeGroupSpecs, nodeGroups, clusterUpdateMutex, platform,
                   locals, calls, last>>
    /\ UNCHANGED clones

\* spec.Name, the id of the group; NodeGroupTag is "k8s-nodegroup-" + id
SpecName == "name"
\* the address new(int) returns, and the address of clusterUpdateLock
TargetSizeCell == "new(int)"
ClusterUpdateLock == "&clusterUpdateLock"

\* ng := vsphereNodeGroup{...}: the id and the sizes of the spec, the pointer
\* to the mutex and the pointer to the target size
vsphereNodeGroup(spec) ==
    [id |-> SpecName, minSize |-> spec.minSize, maxSize |-> spec.maxSize,
     clusterUpdateMutex |-> ClusterUpdateLock, targetSize |-> TargetSizeCell]

\* a registration placed ahead of the size query
AddNodeGroupUnseeded ==
    /\ phase \in {"constructed", "seeded"}
    /\ nodeGroups' = Append(nodeGroups, vsphereNodeGroup(NodeGroupSpecs[1]))
    /\ phase' = "built"
    /\ UNCHANGED <<NodeGroupSpecs, targetSize, clusterUpdateMutex, platform,
                   locals, calls, last>>
    /\ UNCHANGED clones

\* a group built with the two sizes of the spec exchanged
AddNodeGroupSwapped ==
    /\ phase = "seeded"
    /\ nodeGroups' = Append(nodeGroups,
                            [vsphereNodeGroup(NodeGroupSpecs[1]) EXCEPT
                               !.minSize = NodeGroupSpecs[1].maxSize,
                               !.maxSize = NodeGroupSpecs[1].minSize])
    /\ phase' = "built"
    /\ UNCHANGED <<NodeGroupSpecs, targetSize, clusterUpdateMutex, platform,
                   locals, calls, last>>
    /\ UNCHANGED clones

\* AddNodeGroup: append the group to vcp.nodeGroups
AddNodeGroup ==
    /\ phase = "seeded"
    /\ nodeGroups' = Append(nodeGroups, vsphereNodeGroup(NodeGroupSpecs[1]))
    /\ phase' = "built"
    /\ UNCHANGED <<NodeGroupSpecs, targetSize, clusterUpdateMutex, platform,
                   locals, calls, last>>
    /\ UNCHANGED clones

MaxSize == nodeGroups[1].maxSize
MinSize == nodeGroups[1].minSize

(* ---------------------------- IncreaseSize ---------------------------- *)
Deltas == -1..MaxDelta

\* a goroutine invokes ng.IncreaseSize(d); the goroutines being alike, the
\* call is given to the first one that is not inside a call
IncreaseSize(p, d) ==
    /\ phase = "built"
    /\ pc[p] = "idle"
    /\ \A q \in Callers : q < p => pc[q] # "idle"
    /\ calls < MaxCalls
    /\ calls' = calls + 1
    /\ pc' = [pc EXCEPT ![p] = "Lock"]
    /\ delta' = [delta EXCEPT ![p] = d]
    /\ hist' = [hist EXCEPT ![p] = HistInit]
    /\ UNCHANGED <<provider, targetSize, clusterUpdateMutex, platform, size,
                   i, err, last>>
    /\ UNCHANGED clones

\* a Lock that does not wait for the mutex
LockNoWait(p) ==
    /\ pc[p] = "Lock"
    /\ clusterUpdateMutex' = TRUE
    /\ pc' = [pc EXCEPT ![p] = "validate"]
    /\ hist' = [hist EXCEPT ![p].t0 = targetSize]
    /\ UNCHANGED <<provider, targetSize, platform, delta, size, i, err,
                   calls, last>>
    /\ UNCHANGED clones

\* ng.clusterUpdateMutex.Lock(): blocks while the mutex is held
Lock(p) ==
    /\ pc[p] = "Lock"
    /\ ~clusterUpdateMutex
    /\ clusterUpdateMutex' = TRUE
    /\ pc' = [pc EXCEPT ![p] = "validate"]
    /\ hist' = [hist EXCEPT ![p].t0 = targetSize]
    /\ UNCHANGED <<provider, targetSize, platform, delta, size, i, err,
                   calls, last>>
    /\ UNCHANGED clones

\* a check that lets a delta of zero through
DeltaRejectedNegativeOnly(d) == d < 0

\* if delta <= 0
DeltaRejected(d) == d <= 0

\* the validation of delta, returning the error when it is not positive
ValidateDelta(p) ==
    /\ pc[p] = "validate"
    /\ IF DeltaRejected(delta[p])
         THEN /\ err' = [err EXCEPT ![p] = ErrDelta]
              /\ pc' = [pc EXCEPT ![p] = "Unlock"]
         ELSE /\ err' = err
              /\ pc' = [pc EXCEPT ![p] = "nodeGroupSize"]
    /\ UNCHANGED <<provider, targetSize, clusterUpdateMutex, platform, delta,
                   size, i, hist, calls, last>>
    /\ UNCHANGED clones

\* size, err := ng.vsphereManager.nodeGroupSize(ng.id)
NodeGroupSize(p) ==
    /\ pc[p] = "nodeGroupSize"
    /\ \E f1, f2 \in BOOLEAN :
         \E cm \in GetObjectsFromTag(ClusterTag, f1),
            gm \in GetObjectsFromTag(NodeGroupTag, f2) :
           LET r == nodeGroupSize(cm, gm) IN
             /\ size' = [size EXCEPT ![p] = r.size]
             /\ IF r.err # ErrNil
                  THEN /\ err' = [err EXCEPT ![p] = ErrSize]
                       /\ pc' = [pc EXCEPT ![p] = "Unlock"]
                  ELSE /\ err' = err
                       /\ pc' = [pc EXCEPT ![p] = "checkMax"]
             /\ hist' = [hist EXCEPT ![p].queried = TRUE,
                                     ![p].live = LiveSize,
                                     ![p].lookupFailed = f1 \/ f2]
    /\ UNCHANGED <<provider, targetSize, clusterUpdateMutex, platform, delta,
                   i, calls, last>>
    /\ UNCHANGED clones

\* a check that also refuses to fill the group up to its maximum
TooLargeAtMax(sz, d) == sz + d >= MaxSize

\* a check made against the cached target instead of the size queried
TooLargeCached(sz, d) == targetSize + d > MaxSize

\* if size+delta > ng.MaxSize()
TooLarge(sz, d) == sz + d > MaxSize

\* a resize that gives the mutex back before it starts cloning
SetTargetSizeUnlocked(p) ==
    /\ pc[p] = "checkMax"
    /\ IF TooLarge(size[p], delta[p])
         THEN /\ err' = [err EXCEPT ![p] = ErrTooLarge]
              /\ pc' = [pc EXCEPT ![p] = "Unlock"]
              /\ UNCHANGED <<targetSize, i, hist, clusterUpdateMutex>>
         ELSE /\ targetSize' = targetSize + delta[p]
              /\ clusterUpdateMutex' = FALSE
              /\ pc' = [pc EXCEPT ![p] = "createNodes"]
              /\ i' = [i EXCEPT ![p] = 0]
              /\ hist' = [hist EXCEPT ![p].createNodes =
                                         Append(@, delta[p])]
              /\ err' = err
    /\ UNCHANGED <<provider, platform, delta, size, calls, last>>
    /\ UNCHANGED clones

\* a resize that leaves the target alone until the clones are made
SetTargetSizeDeferred(p) ==
    /\ pc[p] = "checkMax"
    /\ IF TooLarge(size[p], delta[p])
         THEN /\ err' = [err EXCEPT ![p] = ErrTooLarge]
              /\ pc' = [pc EXCEPT ![p] = "Unlock"]
              /\ UNCHANGED <<i, hist>>
         ELSE /\ pc' = [pc EXCEPT ![p] = "createNodes"]
              /\ i' = [i EXCEPT ![p] = 0]
              /\ hist' = [hist EXCEPT ![p].createNodes =
                                         Append(@, delta[p])]
              /\ err' = err
    /\ UNCHANGED <<provider, targetSize, clusterUpdateMutex, platform, delta,
                   size, calls, last>>
    /\ UNCHANGED clones

\* the bound check, *ng.targetSize += delta, and the call of createNodes
SetTargetSize(p) ==
    /\ pc[p] = "checkMax"
    /\ IF TooLarge(size[p], delta[p])
         THEN /\ err' = [err EXCEPT ![p] = ErrTooLarge]
              /\ pc' = [pc EXCEPT ![p] = "Unlock"]
              /\ UNCHANGED <<targetSize, i, hist>>
         ELSE /\ targetSize' = targetSize + delta[p]
              /\ pc' = [pc EXCEPT ![p] = "createNodes"]
              /\ i' = [i EXCEPT ![p] = 0]
              /\ hist' = [hist EXCEPT ![p].createNodes =
                                         Append(@, delta[p])]
              /\ err' = err
    /\ UNCHANGED <<provider, clusterUpdateMutex, platform, delta, size, calls,
                   last>>
    /\ UNCHANGED clones

\* the sequence number in fmt.Sprintf("%s-%s-%02d", ..., i+nodes+1)
NodeName(k, nodes) == k + nodes + 1

\* a loop that gives up at the first clone that fails
AfterCreateNodeAbort(k, nodes, ok) == IF ok THEN k + 1 ELSE nodes

\* the loop index after mgr.createNode(nodeName), whose error is dropped
AfterCreateNode(k, nodes, ok) == k + 1

\* a loop that takes a failed clone back out of the target size
CreateNodeRollback(p) ==
    /\ pc[p] = "createNodes"
    /\ i[p] < delta[p]
    /\ \E ok \in BOOLEAN :
         /\ hist' = [hist EXCEPT
                       ![p].names = Append(@, NodeName(i[p], delta[p])),
                       ![p].failures = IF ok THEN @ ELSE @ + 1]
         /\ i' = [i EXCEPT ![p] = AfterCreateNode(i[p], delta[p], ok)]
         /\ created' = IF ok THEN created + 1 ELSE created
         /\ requested' = requested \cup {NodeName(i[p], delta[p])}
         /\ targetSize' = IF ok THEN targetSize ELSE targetSize - 1
    /\ UNCHANGED <<provider, clusterUpdateMutex, platform, pc, delta, size,
                   err, calls, last>>

\* one iteration of the loop of createNodes: clone a VM under the next name;
\* the clone succeeds or fails, and the new VM gets no tag
CreateNode(p) ==
    /\ pc[p] = "createNodes"
    /\ i[p] < delta[p]
    /\ \E ok \in BOOLEAN :
         /\ hist' = [hist EXCEPT
                       ![p].names = Append(@, NodeName(i[p], delta[p])),
                       ![p].failures = IF ok THEN @ ELSE @ + 1]
         /\ i' = [i EXCEPT ![p] = AfterCreateNode(i[p], delta[p], ok)]
         /\ created' = IF ok THEN created + 1 ELSE created
         /\ requested' = requested \cup {NodeName(i[p], delta[p])}
    /\ UNCHANGED <<provider, targetSize, clusterUpdateMutex, platform, pc,
                   delta, size, err, calls, last>>

\* what createNodes returns when its loop is over
createNodes == ErrNil

\* the loop is over: createNodes returns, and IncreaseSize with it
CreateNodesReturn(p) ==
    /\ pc[p] = "createNodes"
    /\ i[p] >= delta[p]
    /\ err' = [err EXCEPT ![p] = IF createNodes # ErrNil THEN ErrCreate
                                                        ELSE ErrNil]
    /\ pc' = [pc EXCEPT ![p] = "Unlock"]
    /\ UNCHANGED <<provider, targetSize, clusterUpdateMutex, platform, delta,
                   size, i, hist, calls, last>>
    /\ UNCHANGED clones

\* an Unlock written at the end of the function instead of deferred
UnlockOnSuccess(p) ==
    /\ pc[p] = "Unlock"
    /\ clusterUpdateMutex' = IF err[p] = ErrNil THEN FALSE
                                                ELSE clusterUpdateMutex
    /\ pc' = [pc EXCEPT ![p] = "idle"]
    /\ delta' = [delta EXCEPT ![p] = 0]
    /\ size' = [size EXCEPT ![p] = 0]
    /\ i' = [i EXCEPT ![p] = 0]
    /\ err' = [err EXCEPT ![p] = ErrNil]
    /\ hist' = [hist EXCEPT ![p] = HistInit]
    /\ UNCHANGED <<provider, targetSize, platform, calls, last>>
    /\ UNCHANGED clones

\* the deferred ng.clusterUpdateMutex.Unlock() and the return to the caller
Unlock(p) ==
    /\ pc[p] = "Unlock"
    /\ clusterUpdateMutex' = FALSE
    /\ pc' = [pc EXCEPT ![p] = "idle"]
    /\ delta' = [delta EXCEPT ![p] = 0]
    /\ size' = [size EXCEPT ![p] = 0]
    /\ i' = [i EXCEPT ![p] = 0]
    /\ err' = [err EXCEPT ![p] = ErrNil]
    /\ hist' = [hist EXCEPT ![p] = HistInit]
    /\ UNCHANGED <<provider, targetSize, platform, calls, last>>
    /\ UNCHANGED clones

(* ------------------------- the other operations ----------------------- *)
\* these take no lock and are run by any goroutine at any time

\* TargetSize: the cached value, without a look at the platform
TargetSize ==
    /\ phase = "built"
    /\ calls < MaxCalls
    /\ calls' = calls + 1
    /\ last' = [LastNone EXCEPT !.op = "TargetSize", !.n = targetSize]
    /\ UNCHANGED <<provider, targetSize, clusterUpdateMutex, platform, locals>>
    /\ UNCHANGED clones

\* a Nodes that waits until no resize holds the mutex
NodesLocked ==
    /\ phase = "built"
    /\ ~clusterUpdateMutex
    /\ calls < MaxCalls
    /\ calls' = calls + 1
    /\ \E f1, f2 \in BOOLEAN :
         \E cm \in GetObjectsFromTag(ClusterTag, f1),
            gm \in GetObjectsFromTag(NodeGroupTag, f2) :
           LET r == getNodes(cm, gm) IN
             last' = [LastNone EXCEPT !.op = "Nodes",
                                      !.n = Len(r.nodes),
                                      !.nodes = r.nodes]
    /\ UNCHANGED <<provider, targetSize, clusterUpdateMutex, platform, locals>>
    /\ UNCHANGED clones

\* Nodes: one instance per id getNodes returns
Nodes ==
    /\ phase = "built"
    /\ calls < MaxCalls
    /\ calls' = calls + 1
    /\ \E f1, f2 \in BOOLEAN :
         \E cm \in GetObjectsFromTag(ClusterTag, f1),
            gm \in GetObjectsFromTag(NodeGroupTag, f2) :
           LET r == getNodes(cm, gm) IN
             last' = IF r.err # ErrNil
                       THEN [LastNone EXCEPT !.op = "Nodes",
                                             !.err = "could not get nodes"]
                       ELSE [LastNone EXCEPT !.op = "Nodes",
                                             !.n = Len(r.nodes),
                                             !.nodes = r.nodes]
    /\ UNCHANGED <<provider, targetSize, clusterUpdateMutex, platform, locals>>
    /\ UNCHANGED clones

\* a DecreaseTargetSize that lowers the target
DecreaseTargetSizeApplied(d) ==
    /\ phase = "built"
    /\ calls < MaxCalls
    /\ calls' = calls + 1
    /\ targetSize' = targetSize - d
    /\ last' = [LastNone EXCEPT !.op = "DecreaseTargetSize"]
    /\ UNCHANGED <<provider, clusterUpdateMutex, platform, locals>>
    /\ UNCHANGED clones

\* DecreaseTargetSize returns cloudprovider.ErrNotImplemented
DecreaseTargetSize(d) ==
    /\ phase = "built"
    /\ calls < MaxCalls
    /\ calls' = calls + 1
    /\ last' = [LastNone EXCEPT !.op = "DecreaseTargetSize",
                                !.err = ErrNotImplemented]
    /\ UNCHANGED <<provider, targetSize, clusterUpdateMutex, platform, locals>>
    /\ UNCHANGED clones

\* DeleteNodes returns cloudprovider.ErrNotImplemented
DeleteNodes(nodes) ==
    /\ phase = "built"
    /\ calls < MaxCalls
    /\ calls' = calls + 1
    /\ last' = [LastNone EXCEPT !.op = "DeleteNodes",
                                !.err = ErrNotImplemented]
    /\ UNCHANGED <<provider, targetSize, clusterUpdateMutex, platform, locals>>
    /\ UNCHANGED clones

\* Create returns nil and cloudprovider.ErrAlreadyExist
Create ==
    /\ phase = "built"
    /\ calls < MaxCalls
    /\ calls' = calls + 1
    /\ last' = [LastNone EXCEPT !.op = "Create", !.err = ErrAlreadyExist]
    /\ UNCHANGED <<provider, targetSize, clusterUpdateMutex, platform, locals>>
    /\ UNCHANGED clones

\* a Delete that reports success without deleting anything
DeleteSilent ==
    /\ phase = "built"
    /\ calls < MaxCalls
    /\ calls' = calls + 1
    /\ last' = [LastNone EXCEPT !.op = "Delete"]
    /\ UNCHANGED <<provider, targetSize, clusterUpdateMutex, platform, locals>>
    /\ UNCHANGED clones

\* Delete returns cloudprovider.ErrNotImplemented
Delete ==
    /\ phase = "built"
    /\ calls < MaxCalls
    /\ calls' = calls + 1
    /\ last' = [LastNone EXCEPT !.op = "Delete", !.err = ErrNotImplemented]
    /\ UNCHANGED <<provider, targetSize, clusterUpdateMutex, platform, locals>>
    /\ UNCHANGED clones

(* ------------------------ the provider's operations ------------------- *)
\* a loop that leaves out the last group
groupsOneShort(ngs, shared) ==
    [k \in 1..(Len(ngs) - 1) |-> ngs[k]]

\* a copy that gives each handle a target size of its own
groupsOwnTarget(ngs, shared) ==
    [k \in 1..Len(ngs) |->
        [ngs[k] EXCEPT !.targetSize = "new(int) of the copy"]]

\* what the entries groups[i] = &group point to when the loop of NodeGroups
\* is over: group is a copy of vcp.nodeGroups[i], one variable for the whole
\* loop (shared, the last copy then) or one per iteration, as the toolchain
\* has it
groups(ngs, shared) ==
    [k \in 1..Len(ngs) |-> IF shared THEN ngs[Len(ngs)] ELSE ngs[k]]

\* NodeGroups: one pointer per registered group
NodeGroups ==
    /\ phase = "built"
    /\ calls < MaxCalls
    /\ calls' = calls + 1
    /\ \E shared \in BOOLEAN :
         last' = [LastNone EXCEPT !.op = "NodeGroups",
                                  !.n = Len(groups(nodeGroups, shared)),
                                  !.groups = groups(nodeGroups, shared)]
    /\ UNCHANGED <<provider, targetSize, clusterUpdateMutex, platform, locals>>
    /\ UNCHANGED clones

\* a lookup that hands every node the first group
GroupIndexForNodeAny(labels) == 1

\* the group NodeGroupForNode picks: none when the master label is found,
\* else vcp.nodeGroups[0]
GroupIndexForNode(labels) == IF MasterLabel \in labels THEN 0 ELSE 1

\* NodeGroupForNode(node), with a nil error
NodeGroupForNode(labels) ==
    /\ phase = "built"
    /\ calls < MaxCalls
    /\ calls' = calls + 1
    /\ last' = [LastNone EXCEPT !.op = "NodeGroupForNode",
                                !.labels = labels,
                                !.group = GroupIndexForNode(labels)]
    /\ UNCHANGED <<provider, targetSize, clusterUpdateMutex, platform, locals>>
    /\ UNCHANGED clones

\* Pricing returns nil and cloudprovider.ErrNotImplemented
Pricing ==
    /\ phase = "built"
    /\ calls < MaxCalls
    /\ calls' = calls + 1
    /\ last' = [LastNone EXCEPT !.op = "Pricing", !.err = ErrNotImplemented]
    /\ UNCHANGED <<provider, targetSize, clusterUpdateMutex, platform, locals>>
    /\ UNCHANGED clones

\* GetAvailableMachineTypes returns nil and cloudprovider.ErrNotImplemented
GetAvailableMachineTypes ==
    /\ phase = "built"
    /\ calls < MaxCalls
    /\ calls' = calls + 1
    /\ last' = [LastNone EXCEPT !.op = "GetAvailableMachineTypes",
                                !.err = ErrNotImplemented]
    /\ UNCHANGED <<provider, targetSize, clusterUpdateMutex, platform, locals>>
    /\ UNCHANGED clones

\* NewNodeGroup returns nil and cloudprovider.ErrNotImplemented
NewNodeGroup ==
    /\ phase = "built"
    /\ calls < MaxCalls
    /\ calls' = calls + 1
    /\ last' = [LastNone EXCEPT !.op = "NewNodeGroup",
                                !.err = ErrNotImplemented]
    /\ UNCHANGED <<provider, targetSize, clusterUpdateMutex, platform, locals>>
    /\ UNCHANGED clones

(* ------------------------------ platform ------------------------------ *)
\* another party attaches an existing tag to an object or detaches it
ExternalTagChange(t, r) ==
    /\ t \in tagExists
    /\ attached' = [attached EXCEPT
                      ![t] = IF r \in @ THEN @ \ {r} ELSE @ \cup {r}]
    /\ UNCHANGED <<provider, targetSize, clusterUpdateMutex, tagExists,
                   locals, calls, last>>
    /\ UNCHANGED clones

(* --------------------------- specification ---------------------------- *)
\* the steps of the program itself
ProgramNext ==
    \/ BuildVsphereSpecs
    \/ BuildVsphereSeed
    \/ AddNodeGroup
    \/ \E p \in Callers, d \in Deltas : IncreaseSize(p, d)
    \/ \E p \in Callers : Lock(p)
    \/ \E p \in Callers : ValidateDelta(p)
    \/ \E p \in Callers : NodeGroupSize(p)
    \/ \E p \in Callers : SetTargetSize(p)
    \/ \E p \in Callers : CreateNode(p)
    \/ \E p \in Callers : CreateNodesReturn(p)
    \/ \E p \in Callers : Unlock(p)
    \/ TargetSize
    \/ Nodes
    \/ \E d \in Deltas : DecreaseTargetSize(d)
    \/ \E ns \in SUBSET Refs : DeleteNodes(ns)
    \/ Create
    \/ Delete
    \/ NodeGroups
    \/ \E labels \in NodeLabels : NodeGroupForNode(labels)
    \/ Pricing
    \/ GetAvailableMachineTypes
    \/ NewNodeGroup

\* the program next to other parties that attach and detach tags
Next ==
    \/ ProgramNext
    \/ \E t \in Tags, r \in Refs : ExternalTagChange(t, r)

Spec == Init /\ [][Next]_vars

\* the program on a platform nobody else changes
ProgramSpec == Init /\ [][ProgramNext]_vars

\* the steps a caller takes while it holds the mutex
Critical(p) ==
    \/ ValidateDelta(p)
    \/ NodeGroupSize(p)
    \/ SetTargetSize(p)
    \/ CreateNode(p)
    \/ CreateNodesReturn(p)
    \/ Unlock(p)

\* a start with the one spec 1:MaxSpecSize:name, on any platform
OneSpecInit ==
    /\ Init
    /\ NodeGroupSpecs = <<[minSize |-> 1, maxSize |-> MaxSpecSize]>>

\* the mutex hands over fairly, and the platform calls made under it return
FairSpec ==
    /\ OneSpecInit
    /\ [][Next]_vars
    /\ \A p \in Callers : SF_vars(Lock(p))
    /\ \A p \in Callers : WF_vars(Critical(p))

(* ------------------- the manager's queries on their own --------------- *)
\* mgr.nodeGroupSize against the platform as it is, the listings kept
ManagerNodeGroupSize ==
    \E f1, f2 \in BOOLEAN :
      \E cm \in GetObjectsFromTag(ClusterTag, f1),
         gm \in GetObjectsFromTag(NodeGroupTag, f2) :
        LET r == nodeGroupSize(cm, gm) IN
          /\ last' = [LastNone EXCEPT !.op = "nodeGroupSize",
                                      !.err = r.err, !.n = r.size,
                                      !.clusterMachines = cm,
                                      !.nodeGroupMachines = gm]
          /\ UNCHANGED <<provider, targetSize, clusterUpdateMutex, platform,
                         locals, calls>>
          /\ UNCHANGED clones

\* mgr.getNodes against the platform as it is, the listings kept
ManagerGetNodes ==
    \E f1, f2 \in BOOLEAN :
      \E cm \in GetObjectsFromTag(ClusterTag, f1),
         gm \in GetObjectsFromTag(NodeGroupTag, f2) :
        LET r == getNodes(cm, gm) IN
          /\ last' = [LastNone EXCEPT !.op = "getNodes",
                                      !.err = r.err, !.n = Len(r.nodes),
                                      !.nodes = r.nodes,
                                      !.clusterMachines = cm,
                                      !.nodeGroupMachines = gm]
          /\ UNCHANGED <<provider, targetSize, clusterUpdateMutex, platform,
                         locals, calls>>
          /\ UNCHANGED clones

ManagerNext ==
    \/ ManagerNodeGroupSize
    \/ ManagerGetNodes
    \/ \E t \in Tags, r \in Refs : ExternalTagChange(t, r)

ManagerSpec == OneSpecInit /\ [][ManagerNext]_vars

(* ------------------------------- claims ------------------------------- *)
\* the caller holds the mutex: it is between Lock and the deferred Unlock
InCritical(p) ==
    pc[p] \in {"validate", "nodeGroupSize", "checkMax", "createNodes", "Unlock"}

\* C1: in every reachable state at most one IncreaseSize call is between
\* acquiring and releasing the cluster-wide lock.
C1_MutualExclusion ==
    Cardinality({p \in Callers : InCritical(p)}) <= 1

\* one call is cloning under the lock while another waits for the lock
C1_Witness ==
    \E p, q \in Callers :
        /\ pc[p] = "createNodes"
        /\ pc[q] = "Lock"
        /\ clusterUpdateMutex

\* C2: a call with delta <= 0 is about to return an error, has left
\* targetSize as it was when the call took the lock, and has invoked neither
\* createNodes nor a clone.
C2_NonPositiveDeltaRejected ==
    \A p \in Callers :
        (InCritical(p) /\ delta[p] <= 0) =>
            /\ targetSize = hist[p].t0
            /\ hist[p].createNodes = <<>>
            /\ hist[p].names = <<>>
            /\ pc[p] \in {"validate", "Unlock"}
            /\ pc[p] = "Unlock" => err[p] = ErrDelta

\* a call with delta 0 returns while the group has members and a target
C2_Witness ==
    \E p \in Callers :
        /\ pc[p] = "Unlock"
        /\ delta[p] = 0
        /\ err[p] = ErrDelta
        /\ LiveSize > 0
        /\ targetSize > 0

\* C3: a call with delta > 0 made when the live membership count plus delta
\* exceeds MaxSize returns an error, leaves targetSize unchanged and
\* requests no createNodes and no clone.
C3_OverMaxRejected ==
    \A p \in Callers :
        (/\ pc[p] \in {"createNodes", "Unlock"}
         /\ delta[p] > 0
         /\ hist[p].queried
         /\ hist[p].live + delta[p] > MaxSize) =>
            /\ pc[p] = "Unlock"
            /\ err[p] # ErrNil
            /\ targetSize = hist[p].t0
            /\ hist[p].createNodes = <<>>
            /\ hist[p].names = <<>>

\* C4: a call with delta > 0 made when the live membership count plus delta
\* is within MaxSize returns nil, with targetSize at its prior value plus
\* delta and createNodes invoked exactly once, with count delta.
C4_WithinMaxAccepted ==
    \A p \in Callers :
        (/\ pc[p] = "Unlock"
         /\ delta[p] > 0
         /\ hist[p].queried
         /\ hist[p].live + delta[p] <= MaxSize) =>
            /\ err[p] = ErrNil
            /\ targetSize = hist[p].t0 + delta[p]
            /\ hist[p].createNodes = <<delta[p]>>

\* a call that fills the group exactly up to its maximum returns
C4_Witness ==
    \E p \in Callers :
        /\ pc[p] = "Unlock"
        /\ delta[p] > 0
        /\ hist[p].queried
        /\ ~hist[p].lookupFailed
        /\ hist[p].live > 0
        /\ hist[p].live + delta[p] = MaxSize
        /\ err[p] = ErrNil

\* C5: once the provider is built, and whenever no resize is in progress,
\* minSize <= targetSize <= maxSize.
C5_TargetWithinBounds ==
    (phase = "built" /\ ~clusterUpdateMutex) =>
        (MinSize <= targetSize /\ targetSize <= MaxSize)

\* C6: every return of IncreaseSize leaves the mutex free, and every caller
\* waiting for the mutex eventually holds it and returns.
C6_LockReleasedAndProgress ==
    /\ [][\A p \in Callers :
            (pc[p] # "idle" /\ pc'[p] = "idle") => ~clusterUpdateMutex']_vars
    /\ \A p \in Callers : (pc[p] = "Lock") ~> InCritical(p)
    /\ \A p \in Callers : (pc[p] = "Lock") ~> (pc[p] = "idle")

\* a caller waits for the mutex while the holder returns an error
C6_Witness ==
    \E p, q \in Callers :
        /\ pc[p] = "Unlock"
        /\ err[p] # ErrNil
        /\ pc[q] = "Lock"

\* C7: the members the manager computes from the listing A of the cluster
\* tag and the listing B of the node-group tag are exactly those in both,
\* none when either listing is empty, and nodeGroupSize is their number.
C7_IntersectionLaw ==
    LET A == ToSet(last.clusterMachines)
        B == ToSet(last.nodeGroupMachines)
    IN  /\ last.op = "nodeGroupSize" =>
              /\ last.n = Cardinality(A \cap B)
              /\ (A = {} \/ B = {}) => last.n = 0
        /\ last.op = "getNodes" =>
              /\ ToSet(last.nodes) = A \cap B
              /\ Len(last.nodes) = Cardinality(A \cap B)
              /\ (A = {} \/ B = {}) => last.nodes = <<>>

\* getNodes keeps one object of several and drops another
C7_Witness ==
    /\ last.op = "getNodes"
    /\ Len(last.clusterMachines) > 1
    /\ Len(last.nodeGroupMachines) = 1
    /\ last.nodes = last.nodeGroupMachines
    /\ last.clusterMachines[1] # last.nodeGroupMachines[1]

\* C8: createNodes requests a clone for each of its count iterations however
\* many of them fail, and the enclosing IncreaseSize returns nil with
\* targetSize at its prior value plus delta.
C8_PartialFailureTolerated ==
    \A p \in Callers :
        /\ pc[p] = "createNodes" =>
              /\ Len(hist[p].names) = i[p]
              /\ i[p] <= delta[p]
        /\ (pc[p] = "Unlock" /\ hist[p].createNodes # <<>>) =>
              /\ Len(hist[p].names) = delta[p]
              /\ err[p] = ErrNil
              /\ targetSize = hist[p].t0 + delta[p]

\* a call returns after its first clone failed and a later one succeeded
C8_Witness ==
    \E p \in Callers :
        /\ pc[p] = "Unlock"
        /\ Len(hist[p].names) = delta[p]
        /\ hist[p].failures > 0
        /\ hist[p].failures < delta[p]

\* C9: a call during whose size query a tag lookup failed goes no further
\* than returning the size-query error.
C9_LookupErrorPropagated ==
    \A p \in Callers :
        hist[p].lookupFailed => (pc[p] = "Unlock" /\ err[p] = ErrSize)

Unsupported == {"DecreaseTargetSize", "DeleteNodes"}

\* C10: a step in which DecreaseTargetSize or DeleteNodes returns hands back
\* ErrNotImplemented and leaves targetSize, the mutex, the tags and every
\* call in progress as they were.
C10_UnsupportedInert ==
    [][(last' # last /\ last'.op \in Unsupported) =>
          /\ last'.err = ErrNotImplemented
          /\ UNCHANGED <<targetSize, clusterUpdateMutex, platform, locals,
                         provider>>]_vars

\* DeleteNodes has returned in the middle of somebody's resize
C10_Witness ==
    /\ last.op = "DeleteNodes"
    /\ last.err = ErrNotImplemented
    /\ \E p \in Callers : pc[p] = "createNodes"

\* the operations the provider does not support
NotSupported ==
    {"DecreaseTargetSize", "DeleteNodes", "NewNodeGroup",
     "GetAvailableMachineTypes", "Pricing", "Create", "Delete"}

\* C11 as stated: every not-supported operation, Create and Delete of a node
\* group among them, returns the not-implemented signal.
C11_AllNotImplemented ==
    last.op \in NotSupported => last.err = ErrNotImplemented

\* C11 amended: every not-supported operation other than Create returns the
\* not-implemented signal, and Create returns the already-exists signal
\* with no group.
C11_NotImplementedExceptCreate ==
    /\ last.op \in NotSupported \ {"Create"} => last.err = ErrNotImplemented
    /\ last.op = "Create" => (last.err = ErrAlreadyExist /\ last.group = 0)

\* Delete of the node group has returned after another operation
C11_Witness ==
    /\ last.op = "Delete"
    /\ last.err = ErrNotImplemented
    /\ calls = MaxCalls

\* C12: once BuildVsphere has returned, NodeGroupForNode returns no group
\* and no error for a node with the master label, and the first registered
\* node group and no error for any other node.
C12_NodeGroupForNode ==
    last.op = "NodeGroupForNode" =>
        /\ last.err = ErrNil
        /\ MasterLabel \in last.labels => last.group = 0
        /\ MasterLabel \notin last.labels =>
              (last.group = 1 /\ Len(nodeGroups) >= 1)

\* a master node that carries other labels too was asked about
C12_Witness ==
    /\ last.op = "NodeGroupForNode"
    /\ last.labels = {MasterLabel, HostnameLabel}
    /\ last.group = 0

\* C13: with zero or more than one spec BuildVsphere ends fatally without
\* registering a group, and a provider it returns has exactly one group.
C13_ExactlyOneGroup ==
    /\ Len(NodeGroupSpecs) # 1 =>
          (phase \in {"start", "fatal"} /\ nodeGroups = <<>>)
    /\ phase = "fatal" => nodeGroups = <<>>
    /\ phase = "built" => Len(nodeGroups) = 1

\* BuildVsphere has ended fatally on two specs that would each parse
C13_Witness ==
    /\ phase = "fatal"
    /\ Len(NodeGroupSpecs) = 2
    /\ SpecFromStringOk(NodeGroupSpecs[1])

C15_MinMaxFixed ==
    /\ [](phase = "built" =>
            /\ MinSize = NodeGroupSpecs[1].minSize
            /\ MaxSize = NodeGroupSpecs[1].maxSize)
    /\ [][nodeGroups # <<>> =>
            (nodeGroups' = nodeGroups /\ NodeGroupSpecs' = NodeGroupSpecs)]_vars

\* a resize has grown the target of a group whose minimum is below its
\* maximum
C15_Witness ==
    /\ phase = "built"
    /\ MinSize < MaxSize
    /\ calls = MaxCalls
    /\ \E p \in Callers : pc[p] = "Unlock" /\ err[p] = ErrNil /\ delta[p] > 0

\* the caller has not taken the mutex: it is outside a call or waits in Lock
Outside(p) == pc[p] \in {"idle", "Lock"}

\* C16: while one caller holds the lock another caller that waits for it stays
\* waiting with nothing done, a caller that has queried the size, updated
\* targetSize or cloned finds every other caller returned or still waiting,
\* and targetSize is changed only by the holder while the others stand still.
C16_SerializedInLockOrder ==
    /\ [][\A p, q \in Callers :
            (p # q /\ InCritical(p) /\ pc[q] = "Lock") =>
                (pc'[q] = "Lock" /\ hist'[q] = hist[q])]_vars
    /\ [](\A p, q \in Callers :
            (p # q /\ (~Outside(q) \/ hist[q] # HistInit)) =>
                (Outside(p) /\ hist[p] = HistInit))
    /\ [][(phase = "built" /\ targetSize' # targetSize) =>
            \E p \in Callers :
                /\ pc[p] = "checkMax"
                /\ \A q \in Callers \ {p} :
                      Outside(q) /\ pc'[q] = pc[q]]_vars

\* a caller is in the middle of its clones while another, which also asks
\* for nodes, waits for the lock
C16_Witness ==
    \E p, q \in Callers :
        /\ pc[p] = "createNodes"
        /\ hist[p].names # <<>>
        /\ i[p] < delta[p]
        /\ pc[q] = "Lock"
        /\ delta[q] > 0

\* C17: every clone that succeeds adds one member to the group: the new VM
\* carries the cluster tag and the node-group tag.
C17_ClonedBecomesMember ==
    [][\A p \in Callers :
         (/\ pc[p] = "createNodes"
          /\ i'[p] = i[p] + 1
          /\ hist'[p].failures = hist[p].failures) =>
            Cardinality(attached'[ClusterTag] \cap attached'[NodeGroupTag])
                = LiveSize + 1]_vars

\* C18: a call with a positive delta is accepted exactly when the size
\* queried plus delta is within MaxSize, whatever targetSize is, and the
\* size queried is the live membership count when the lookups went through.
C18_BoundCheckOnLiveSize ==
    \A p \in Callers :
        (pc[p] \in {"createNodes", "Unlock"} /\ hist[p].queried) =>
            /\ hist[p].createNodes # <<>> <=> size[p] + delta[p] <= MaxSize
            /\ (pc[p] = "Unlock" /\ hist[p].createNodes = <<>>) =>
                  (err[p] = ErrTooLarge /\ targetSize = hist[p].t0)
            /\ ~hist[p].lookupFailed => size[p] = hist[p].live

\* a call is accepted on the live count although the cached target plus
\* delta is beyond the maximum
C18_Witness ==
    \E p \in Callers :
        /\ pc[p] = "createNodes"
        /\ ~hist[p].lookupFailed
        /\ hist[p].live + delta[p] <= MaxSize
        /\ hist[p].t0 + delta[p] > MaxSize

\* C19: a call passes lock, delta validation, size query, bound check,
\* targetSize += delta, createNodes and unlock in this order: before the
\* bound check targetSize is as it was at the lock, and from the call of
\* createNodes on, so at every clone, it is the prior value plus delta.
C19_StepOrder ==
    \A p \in Callers :
        /\ InCritical(p) => clusterUpdateMutex
        /\ pc[p] = "validate" =>
              (~hist[p].queried /\ hist[p].createNodes = <<>>
                 /\ targetSize = hist[p].t0)
        /\ pc[p] = "nodeGroupSize" =>
              (delta[p] > 0 /\ ~hist[p].queried
                 /\ hist[p].createNodes = <<>> /\ targetSize = hist[p].t0)
        /\ pc[p] = "checkMax" =>
              (delta[p] > 0 /\ hist[p].queried
                 /\ hist[p].createNodes = <<>> /\ hist[p].names = <<>>
                 /\ targetSize = hist[p].t0)
        /\ pc[p] = "createNodes" =>
              (hist[p].queried /\ hist[p].createNodes = <<delta[p]>>
                 /\ targetSize = hist[p].t0 + delta[p])
        /\ hist[p].names # <<>> =>
              (hist[p].createNodes = <<delta[p]>>
                 /\ targetSize = hist[p].t0 + delta[p])
        /\ (pc[p] = "Unlock" /\ err[p] = ErrNil) =>
              (Len(hist[p].names) = delta[p]
                 /\ targetSize = hist[p].t0 + delta[p])

\* TargetSize has handed out the raised target while the resize that raised
\* it has yet to ask for its first clone
C19_Witness ==
    \E p \in Callers :
        /\ pc[p] = "createNodes"
        /\ hist[p].names = <<>>
        /\ delta[p] > 0
        /\ last.op = "TargetSize"
        /\ last.n = hist[p].t0 + delta[p]

\* C20: Nodes can return whenever the provider is built, whether or not a
\* resize holds the mutex, and the step in which it returns leaves targetSize,
\* the mutex, the tags and every resize in progress as they were.
C20_NodesNotSerialized ==
    /\ []((phase = "built" /\ calls < MaxCalls) => ENABLED Nodes)
    /\ [][(calls' # calls /\ pc' = pc /\ last'.op = "Nodes") =>
            UNCHANGED <<targetSize, clusterUpdateMutex, platform, delta, size,
                        i, err, hist, provider>>]_vars

\* Nodes has returned the members while a resize is cloning under the mutex
C20_Witness ==
    /\ last.op = "Nodes"
    /\ last.n > 0
    /\ clusterUpdateMutex
    /\ \E p \in Callers : pc[p] = "createNodes" /\ i[p] < delta[p]

\* C21: the sequence number of the k-th name a call requests is the
\* membership count of the group at the call's size query plus k.
C21_NameFromPlatformCount ==
    \A p \in Callers :
        \A k \in 1..Len(hist[p].names) :
            hist[p].names[k] = hist[p].live + k

\* one of the two tags of the group does not exist on the platform
TagMissing == ClusterTag \notin tagExists \/ NodeGroupTag \notin tagExists

\* C22: when the cluster tag or the node-group tag does not exist, the group
\* is seeded with size 0 without a fatal end, the size query of IncreaseSize
\* gives 0 without the size-query error, and Nodes returns the empty list
\* with a nil error.
C22_MissingTagIsEmpty ==
    TagMissing =>
        /\ phase = "seeded" => targetSize = 0
        /\ \A p \in Callers :
              hist[p].queried => (size[p] = 0 /\ err[p] # ErrSize)
        /\ last.op = "Nodes" =>
              (last.err = ErrNil /\ last.nodes = <<>> /\ last.n = 0)

\* Nodes has returned for a group whose node-group tag does not exist while
\* the cluster tag is attached to machines, after a resize found size 0
C22_Witness ==
    /\ last.op = "Nodes"
    /\ NodeGroupTag \notin tagExists
    /\ attached[ClusterTag] # {}
    /\ \E p \in Callers : hist[p].queried /\ pc[p] = "createNodes"

\* C23: NodeGroups returns as many entries as groups are registered, the
\* k-th entry being the k-th registered group: its id, its sizes, its target
\* size and its mutex.
C23_NodeGroupsAllInOrder ==
    last.op = "NodeGroups" =>
        /\ Len(last.groups) = Len(nodeGroups)
        /\ last.n = Len(nodeGroups)
        /\ \A k \in 1..Len(last.groups) : last.groups[k] = nodeGroups[k]

\* NodeGroups has returned the group, whose target a resize has raised
C23_Witness ==
    /\ last.op = "NodeGroups"
    /\ Len(last.groups) = 1
    /\ last.groups[1].minSize < last.groups[1].maxSize
    /\ targetSize > 0
    /\ calls = MaxCalls

C25_NamesNeverReused ==
    [][\A p \in Callers :
         (pc[p] = "createNodes" /\ hist'[p].names # hist[p].names) =>
            NodeName(i[p], delta[p]) \notin requested]_vars

\* the handles handed out: the entries of NodeGroups and the group of
\* NodeGroupForNode
Handles ==
    ToSet(last.groups) \cup
    (IF last.op = "NodeGroupForNode" /\ last.group # 0
       THEN {nodeGroups[last.group]} ELSE {})

\* C26: every handle points to the one target size cell and the one mutex of
\* the registered group, TargetSize hands out what that cell holds when it is
\* called, and whoever is inside IncreaseSize holds that mutex.
C26_HandlesShareCellAndLock ==
    /\ [](\A h \in Handles :
            /\ h.targetSize = TargetSizeCell
            /\ h.clusterUpdateMutex = ClusterUpdateLock
            /\ h.targetSize = nodeGroups[1].targetSize
            /\ h.clusterUpdateMutex = nodeGroups[1].clusterUpdateMutex)
    /\ [][(calls' # calls /\ pc' = pc /\ last'.op = "TargetSize") =>
            last'.n = targetSize]_vars
    /\ [](\A p \in Callers : InCritical(p) => clusterUpdateMutex)

\* a handle has been handed out while a resize made through another one has
\* raised the target and is still cloning
C26_Witness ==
    /\ last.op = "NodeGroups"
    /\ last.groups # <<>>
    /\ \E p \in Callers :
          /\ pc[p] = "createNodes"
          /\ targetSize = hist[p].t0 + delta[p]

\* C27: once the provider is built targetSize never goes down, and it
\* changes in exactly the steps in which a call that holds the mutex passes
\* the bound check, by the delta of that call; clones, their failures and
\* changes of the tags leave it alone.
C27_TargetGrowsByAcceptedDeltas ==
    [][phase = "built" =>
         /\ targetSize' >= targetSize
         /\ targetSize' # targetSize =>
               \E p \in Callers :
                   /\ pc[p] = "checkMax" /\ pc'[p] = "createNodes"
                   /\ clusterUpdateMutex
                   /\ delta[p] > 0
                   /\ targetSize' = targetSize + delta[p]
         /\ (\E p \in Callers : pc[p] = "checkMax" /\ pc'[p] = "createNodes")
               => targetSize' # targetSize
         /\ (\/ attached' # attached
             \/ \E p \in Callers : hist'[p].names # hist[p].names
                                     /\ pc[p] = "createNodes")
               => targetSize' = targetSize]_vars

\* a call returns nil with the target raised although every clone failed
C27_Witness ==
    \E p \in Callers :
        /\ pc[p] = "Unlock"
        /\ err[p] = ErrNil
        /\ hist[p].failures = delta[p]
        /\ delta[p] > 1
        /\ targetSize = hist[p].t0 + delta[p]
        /\ targetSize > LiveSize

=============================================================================
